---- MODULE Spec2Model ----
(***************************************************************************)
(* Driver tasks of rpc-perf (HTTP/1.1, ping, Momento) pulling work items   *)
(* from the shared work queue, with the counters and the response-latency  *)
(* heatmap they write.  One driver task is modelled; the protocol it       *)
(* speaks is fixed by the configuration at start.  Time is a discrete      *)
(* clock whose tick stands for 100 ms.                                     *)
(***************************************************************************)
EXTENDS Integers, Sequences, FiniteSets, TLC

\* ------------------------------------------------------------------ bounds
\* work items sent to the queue in a run
MaxItems == 2
\* the longest list of fields an item carries
MaxFields == 2
\* the larger of the two request.timeout values a run is configured with
MaxRequestTimeout == 2
\* connection.timeout of the run
ConnectionTimeout == 1
\* the clock stops after the longest timeout plus a sleep
MaxTime == MaxRequestTimeout + 1
\* capacity of the work queue, below MaxItems so that a send can find it full
QueueCap == 1
\* bytes the read buffer holds at most: a response and a fragment
MaxBuf == 3
\* the largest batch the pacer of the rated generator hands out per tick
MaxQuanta == 2
\* the longest key or value a keyspace is configured with
MaxKeyLength == 2
\* the largest cardinality a keyspace is configured with: two decimal digits
MaxCardinality == 11
\* the largest general.threads of a run
MaxThreads == 2
\* tokens a Ratelimiter hands out in a run
MaxTokens == 2
\* largest connection.poolsize of a configuration
MaxPoolsize == 2

\* ------------------------------------------------------- program constants
SleepTicks == 1
PingTimeoutTicks == 2
MomentoTimeoutTicks == 2

None == 0
NoDeadline == -1

Protocols == {"http", "ping", "momento"}

\* the address the ping task connects to
PingAddress == "127.0.0.1:12321"

\* the Momento client is built from the token in MOMENTO_AUTHENTICATION
MomentoService == "MOMENTO_AUTHENTICATION"

\* addresses a configuration can name as target.endpoints
Endpoints == {PingAddress, "10.0.0.1:12321"}

NoTasks == [e \in {} |-> 0]

\* the two files `mod config` can resolve to
ConfigTrees == {"config/mod.rs", "config.rs"}

\* no keyspace: none in the file, none built
NoKeyspace == [built |-> "no"]

\* the domains a Ratelimiter is built for
Domains == {"connect", "reconnect", "request"}

\* commands that carry a list of fields
FieldKinds == {"HashDelete", "HashMultiGet", "HashSet"}

PlainKinds ==
  {"Get", "Set", "HashGet", "HashIncrement", "Ping", "Reconnect", "Delete"}

WorkItem ==
  [kind : PlainKinds, fields : {0}]
    \cup [kind : FieldKinds, fields : {1, MaxFields}]

WorkItemKinds == PlainKinds \cup FieldKinds

NoItem == [kind |-> "none", fields |-> 0, sequence |-> 0]

\* the item with sequence number n once it has been received
Received(item, n) ==
  [kind |-> item.kind, fields |-> item.fields, sequence |-> n]

CounterNames ==
  {"CONNECT", "CONNECT_CURR", "CONNECT_EX", "CONNECT_TIMEOUT", "SESSION",
   "SESSION_CLOSED_CLIENT", "SESSION_CLOSED_SERVER",
   "REQUEST", "REQUEST_OK", "REQUEST_RECONNECT", "REQUEST_UNSUPPORTED",
   "RESPONSE_OK", "RESPONSE_EX", "RESPONSE_TIMEOUT",
   "GET", "GET_OK", "GET_EX", "GET_KEY_HIT", "GET_KEY_MISS",
   "SET", "SET_STORED", "SET_EX",
   "HASH_GET", "HASH_GET_EX", "HASH_GET_FIELD_HIT", "HASH_GET_FIELD_MISS",
   "HASH_SET", "HASH_SET_STORED", "HASH_SET_EX",
   "PING_OK", "PING_EX"}

\* fragments a read of the ping socket can deliver; PONG is one response
Bytes == {"PO", "NG", "??"}
PONG == <<"PO", "NG">>

VARIABLES
  RUNNING,            \* the process-wide flag
  protocol,           \* general.protocol
  request_timeout,    \* request.timeout, in ticks
  connection_timeout, \* connection.timeout, in ticks
  queue,              \* the work queue: the sequence numbers of the items in it
  queue_closed,       \* every sender of the queue has been dropped
  produced,           \* items put on the queue so far
  now,                \* the clock
  deadline,           \* expiry of the timer armed for the current await
  pc,                 \* the await (or loop head) the task is at
  result,             \* what the task returned: "none", "Ok" or "Err"
  exit_cause,         \* why the task returned
  sender,             \* http: Option<SendRequest>, the transport kept across iterations
  stream,             \* ping: Option<TcpStream>
  client,             \* momento: the SimpleCacheClient the task owns
  s,                  \* the transport taken for the current iteration
  peer_closed,        \* the peer announced that it closes the transport s
  work_item,          \* the item being handled
  start,              \* Instant captured before the request
  remaining_time,     \* ping: budget of the read loop
  read_buffer,        \* ping: bytes read and not yet consumed
  write_buffer,       \* ping: composed requests not yet cleared
  metrics,            \* the counters
  RESPONSE_LATENCY,   \* samples recorded in the response-latency heatmap
  opened,             \* transports opened so far; a new transport gets the next number
  sent,               \* history: requests handed to a transport
  last_conn,          \* history: transport of the most recent request
  outcome,            \* history: classification of the most recent request
  reply_status,       \* history: momento: the status field of the most recent answer
  close_signal,       \* history: the most recent request was answered with Connection: close
  attempts,           \* history: connect attempts since the last item was handled
  generator,          \* get_requests: "absent", or the await (or loop head) it is at
  rate,               \* get_requests: None, or the configured rate
  quanta,             \* get_requests: items per tick, from convert_ratelimit
  batch,              \* get_requests: sends completed in the current batch
  ticks,              \* history: ticks of the interval the generator waited for
  late,               \* history: ticks and items of the generator after RUNNING was cleared
  stale,              \* history: items of the generator, at the head of the queue, queued across a clock tick
  resided,            \* history: the item being handled is one of them
  drained,            \* history: items the task received after RUNNING was cleared
  poolsize,           \* connection.poolsize
  endpoints,          \* target.endpoints
  tasks,              \* the tasks launch_tasks spawned: how many connect to each address
  config_tree,        \* the file `mod config` resolves to: config/mod.rs or config.rs
  keyspace_file,      \* a keyspace of the configuration file
  keyspace,           \* the Keyspace Config::new built from it, or "panic"
  key,                \* the key generate_key returned last: <<>> or <<key>>
  value,              \* the value generate_value returned last: <<>> or <<value>>
  threads,            \* general.threads
  ratelimit,          \* connection.ratelimit, connection.reconnect, request.ratelimit
  ratelimiters,       \* the Ratelimiter the Builder holds for each domain: <<>> or <<r>>
  issued,             \* history: tokens each Ratelimiter has handed out
  main,               \* the thread that builds the Builder, spawns and waits
  admin_thread,       \* the thread running admin.run()
  worker_thread       \* the thread running worker.run()

vars ==
  <<RUNNING, protocol, request_timeout, connection_timeout, queue, queue_closed,
    produced, now, deadline, pc, result, exit_cause, sender, stream, client, s,
    peer_closed, work_item, start, remaining_time, read_buffer, write_buffer,
    metrics, RESPONSE_LATENCY, opened, sent, last_conn, outcome, reply_status,
    close_signal, attempts, generator, rate, quanta, batch, ticks, late, stale,
    resided, drained, poolsize, endpoints, tasks, config_tree, keyspace_file, keyspace,
    key, value, threads, ratelimit, ratelimiters, issued, main, admin_thread,
    worker_thread>>

config == <<protocol, request_timeout, connection_timeout, poolsize, endpoints>>
env == <<RUNNING, queue_closed, produced>>
pingbufs == <<remaining_time, read_buffer, write_buffer>>
history == <<sent, last_conn, outcome, reply_status, close_signal, attempts>>
gen == <<generator, rate, quanta, batch, ticks, late>>
residency == <<stale, resided, drained>>
keys == <<config_tree, keyspace_file, keyspace, key, value>>
runtime ==
  <<threads, ratelimit, ratelimiters, issued, main, admin_thread, worker_thread>>
builder == <<keys, runtime>>
driver ==
  <<pc, result, exit_cause, sender, stream, client, s, peer_closed, work_item,
    start, deadline, pingbufs, metrics, RESPONSE_LATENCY, opened, history,
    resided, drained>>

\* ----------------------------------------------------------------- helpers
\* stop.duration_since(start), the sample handed to RESPONSE_LATENCY
DurationSinceEpoch(stop, from) == stop

DurationSince(stop, from) == stop - from

Inc(m, name) == [m EXCEPT ![name] = @ + 1]

Add(m, name, n) == [m EXCEPT ![name] = @ + n]

SaturatingSub(a, b) == IF a > b THEN a - b ELSE 0

\* the state in which launch_tasks is called
InitTasks ==
  /\ RUNNING = TRUE
  /\ protocol \in Protocols
  /\ request_timeout \in {1, MaxRequestTimeout}
  /\ connection_timeout = ConnectionTimeout
  /\ queue = <<>>
  /\ queue_closed = FALSE
  /\ produced = 0
  /\ now = 0
  /\ deadline = NoDeadline
  /\ pc = "launch"
  /\ result = "none"
  /\ exit_cause = "none"
  /\ sender = None
  /\ stream = None
  /\ client = None
  /\ s = None
  /\ peer_closed = FALSE
  /\ work_item = NoItem
  /\ start = 0
  /\ remaining_time = 0
  /\ read_buffer = <<>>
  /\ write_buffer = <<>>
  /\ metrics = [c \in CounterNames |-> 0]
  /\ RESPONSE_LATENCY = <<>>
  /\ opened = 0
  /\ sent = 0
  /\ last_conn = None
  /\ outcome = "none"
  /\ reply_status = "none"
  /\ close_signal = FALSE
  /\ attempts = 0
  /\ quanta = 0
  /\ batch = 0
  /\ ticks = 0
  /\ late = [ticks |-> 0, items |-> 0]
  /\ stale = 0
  /\ resided = FALSE
  /\ drained = 0
  /\ tasks = NoTasks

\* a configuration with one endpoint and a pool of one task
OneTask ==
  /\ poolsize = 1
  /\ endpoints = {PingAddress}

\* no key or value has been generated
NoKeys ==
  /\ key = <<>>
  /\ value = <<>>

\* a run in which no configuration file is read
NoConfigFile ==
  /\ config_tree = "config/mod.rs"
  /\ keyspace_file = NoKeyspace
  /\ keyspace = NoKeyspace
  /\ NoKeys

\* no Ratelimiter has been built: each Option is <<>> (None) or <<r>> (Some)
NoRatelimiters ==
  /\ ratelimiters = [d \in Domains |-> <<>>]
  /\ issued = [d \in Domains |-> 0]

\* no thread has been spawned
NoThreads ==
  /\ main = "new"
  /\ admin_thread = "none"
  /\ worker_thread = "none"

\* a run in which no Builder is made
NoBuilder ==
  /\ threads = 1
  /\ ratelimit = [d \in Domains |-> None]
  /\ NoRatelimiters
  /\ NoThreads

\* a run whose producers are left to the environment
Init ==
  /\ InitTasks
  /\ OneTask
  /\ NoConfigFile
  /\ NoBuilder
  /\ generator = "absent"
  /\ rate = None

\* ------------------------------------------------------------- environment
\* a generator's send completes: the queue is bounded, a full queue suspends.
\* The queue is modelled by the sequence numbers of its items; the command an
\* item carries is drawn when the item is received, which gives the consumer
\* the same runs as drawing it when the item is sent.
Produce ==
  /\ generator = "absent"
  /\ ~queue_closed
  /\ produced < MaxItems
  /\ Len(queue) < QueueCap
  /\ queue' = Append(queue, produced + 1)
  /\ produced' = produced + 1
  /\ UNCHANGED <<RUNNING, config, builder, tasks, gen, residency, queue_closed, now, deadline,
                 pc, result,
                 exit_cause, sender, stream, client, s, peer_closed, work_item,
                 start, pingbufs, metrics, RESPONSE_LATENCY, opened, history>>

\* the last sender of the queue is dropped
CloseQueue ==
  /\ ~queue_closed
  /\ queue_closed' = TRUE
  /\ UNCHANGED <<RUNNING, config, builder, tasks, gen, residency, queue, produced, now,
                 deadline, pc, result,
                 exit_cause, sender, stream, client, s, peer_closed, work_item,
                 start, pingbufs, metrics, RESPONSE_LATENCY, opened, history>>

\* SIGINT / SIGTERM
ClearRunning ==
  /\ RUNNING
  /\ RUNNING' = FALSE
  /\ UNCHANGED <<config, builder, tasks, gen, residency, queue, queue_closed, produced, now,
                 deadline, pc,
                 result, exit_cause, sender, stream, client, s, peer_closed,
                 work_item, start, pingbufs, metrics, RESPONSE_LATENCY, opened,
                 history>>

\* time passes, but not beyond the expiry of an armed timer.  The clock of a
\* run stops at MaxTime, except that a sleep begun before shutdown still ends.
Tick ==
  /\ now < MaxTime \/ (~RUNNING /\ pc = "sleeping")
  /\ deadline = NoDeadline \/ now < deadline
  /\ now' = now + 1
  /\ stale' = IF generator = "absent" THEN stale ELSE Len(queue)
  /\ UNCHANGED <<RUNNING, config, builder, tasks, gen, resided, drained, queue, queue_closed, produced,
                 deadline, pc, result, exit_cause, sender, stream, client, s,
                 peer_closed, work_item, start, pingbufs, metrics,
                 RESPONSE_LATENCY, opened, history>>

\* the task future completes; everything it owns is dropped
Return(res, cause) ==
  /\ pc' = "returned"
  /\ result' = res
  /\ exit_cause' = cause
  /\ sender' = None
  /\ stream' = None
  /\ client' = None
  /\ s' = None
  /\ deadline' = NoDeadline

\* recv on the queue: an item, or an error once the queue is empty and every
\* Sender, the generator's included, has been dropped
RecvClosed ==
  /\ queue = <<>>
  /\ queue_closed
  /\ generator \in {"absent", "returned"}

\* what the producers of the run put on the queue: get_requests sends Get only
Sendable ==
  IF generator = "absent" THEN WorkItem ELSE {[kind |-> "Get", fields |-> 0]}

\* the step of recv that hands the head of the queue to the task
Dequeue ==
  /\ queue' = Tail(queue)
  /\ resided' = (stale > 0)
  /\ drained' = IF RUNNING THEN drained ELSE drained + 1
  /\ stale' = IF stale > 0 THEN stale - 1 ELSE 0

\* ------------------------------------------------------------------ launch
\* the tasks the launch_tasks of a protocol spawns, counted by the address
\* each of them connects to: the HTTP one spawns poolsize tasks per endpoint
\* and hands each its endpoint, the ping one spawns poolsize tasks that all
\* connect to the literal address, the Momento one spawns poolsize tasks on
\* clones of the one client
HttpSpawned(size, targets) == [e \in targets |-> size]

PingSpawned(size) == [e \in {PingAddress} |-> size]

MomentoSpawned(size) == [e \in {MomentoService} |-> size]

Spawned(proto, size, targets) ==
  CASE proto = "http" -> HttpSpawned(size, targets)
    [] proto = "ping" -> PingSpawned(size)
    [] proto = "momento" -> MomentoSpawned(size)

\* launch_tasks spawns the task; the Momento launcher builds the client and
\* counts the connect, the HTTP task builds its Connector before the loop
LaunchTasks(ok) ==
  /\ pc = "launch"
  /\ tasks' = IF protocol = "momento" /\ ~ok
                THEN tasks
                ELSE Spawned(protocol, poolsize, endpoints)
  /\ CASE protocol = "momento" /\ ok ->
            /\ metrics' = Add(Inc(metrics, "CONNECT"), "CONNECT_CURR", 1)
            /\ client' = 1
            /\ opened' = 1
            /\ pc' = "top"
            /\ UNCHANGED <<result, exit_cause, sender, stream, s, deadline>>
       [] protocol = "momento" /\ ~ok ->
            \* MOMENTO_AUTHENTICATION is not set: std::process::exit(1)
            /\ Return("Exit", "fatal")
            /\ UNCHANGED <<metrics, opened>>
       [] protocol = "http" /\ ~ok ->
            \* Connector::new(&config)? fails
            /\ Return("Err", "connector")
            /\ UNCHANGED <<metrics, opened>>
       [] protocol = "http" /\ ok ->
            /\ pc' = "top"
            /\ UNCHANGED <<metrics, opened, client, result, exit_cause,
                           sender, stream, s, deadline>>
       [] protocol = "ping" ->
            /\ ok
            /\ pc' = "top"
            /\ UNCHANGED <<metrics, opened, client, result, exit_cause,
                           sender, stream, s, deadline>>
  /\ UNCHANGED <<env, config, builder, gen, residency, queue, now, peer_closed, work_item, start,
                 pingbufs, RESPONSE_LATENCY, history>>

\* ------------------------------------------------------------- HTTP driver
\* the loop condition of the task, `while RUNNING.load(Ordering::Relaxed)`
WhileTrue(running) == TRUE

WhileRunning(running) == running

\* while RUNNING { if sender.is_none() { CONNECT.increment(); connect ... } ; sender.take() }
HttpLoopTop ==
  /\ protocol = "http" /\ pc = "top"
  /\ IF ~WhileRunning(RUNNING)
       THEN /\ Return("Ok", "running_cleared")
            /\ UNCHANGED <<metrics, attempts>>
       ELSE IF sender = None
         THEN /\ metrics' = Inc(metrics, "CONNECT")
              /\ attempts' = attempts + 1
              /\ pc' = "connecting"
              /\ deadline' = now + connection_timeout
              /\ UNCHANGED <<result, exit_cause, sender, stream, client, s>>
         ELSE /\ s' = sender
              /\ sender' = None
              /\ pc' = "recv"
              /\ UNCHANGED <<metrics, attempts, result, exit_cause, stream,
                             client, deadline>>
  /\ UNCHANGED <<env, config, builder, tasks, gen, residency, queue, now, peer_closed, work_item, start,
                 pingbufs, RESPONSE_LATENCY, opened, sent, last_conn, outcome, reply_status,
                 close_signal>>

\* timeout(connection.timeout, connector.connect(&endpoint)).await
HttpConnect(res) ==
  /\ protocol = "http" /\ pc = "connecting"
  /\ \/ /\ res = "ok" /\ now < deadline
        /\ pc' = "handshaking"
        /\ UNCHANGED metrics
     \/ /\ res = "err" /\ now < deadline
        /\ metrics' = Inc(metrics, "CONNECT_EX")
        /\ pc' = "sleeping"
     \/ /\ res = "timeout" /\ now >= deadline
        /\ metrics' = Inc(metrics, "CONNECT_TIMEOUT")
        /\ pc' = "sleeping"
  /\ deadline' = IF pc' = "sleeping" THEN now + SleepTicks ELSE NoDeadline
  /\ UNCHANGED <<env, config, builder, tasks, gen, residency, queue, now, result, exit_cause,
                 sender, stream,
                 client, s, peer_closed, work_item, start, pingbufs,
                 RESPONSE_LATENCY, opened, history>>

\* hyper::client::conn::http1::handshake(stream).await, then SESSION, sender = Some(s)
\* and, with no await in between, sender.take()
HttpHandshake(ok) ==
  /\ protocol = "http" /\ pc = "handshaking"
  /\ IF ok
       THEN /\ metrics' = Inc(metrics, "SESSION")
            /\ opened' = opened + 1
            /\ s' = opened + 1
            /\ peer_closed' = FALSE
            /\ pc' = "recv"
            /\ deadline' = NoDeadline
       ELSE /\ metrics' = Inc(metrics, "CONNECT_EX")
            /\ pc' = "sleeping"
            /\ deadline' = now + SleepTicks
            /\ UNCHANGED <<opened, s, peer_closed>>
  /\ UNCHANGED <<env, config, builder, tasks, gen, residency, queue, now, result, exit_cause,
                 sender, stream,
                 client, work_item, start, pingbufs, RESPONSE_LATENCY, history>>

\* sleep(Duration::from_millis(100)).await; continue
HttpSleep ==
  /\ protocol = "http" /\ pc = "sleeping"
  /\ now >= deadline
  /\ pc' = "top"
  /\ deadline' = NoDeadline
  /\ UNCHANGED <<env, config, builder, tasks, gen, residency, queue, now, result, exit_cause,
                 sender, stream,
                 client, s, peer_closed, work_item, start, pingbufs, metrics,
                 RESPONSE_LATENCY, opened, history>>

\* the task is at work_receiver.recv(), with no request in flight
HttpIdlePipelined == pc \in {"recv", "awaiting"}

HttpIdle == pc = "recv"

\* the counters written between recv and the request: none when recv fails,
\* REQUEST and the counters of the arm of `match work_item` otherwise
HttpRecvCountersEarly(m, item) ==
  CASE item.kind = "none" -> Inc(m, "REQUEST")
    [] item.kind = "Get" -> Inc(Inc(m, "REQUEST"), "REQUEST_OK")
    [] item.kind = "Reconnect" ->
         Inc(Inc(Inc(m, "REQUEST"), "SESSION_CLOSED_CLIENT"), "REQUEST_RECONNECT")
    [] OTHER -> Inc(Inc(m, "REQUEST"), "REQUEST_UNSUPPORTED")

HttpRecvCountersUncounted(m, item) ==
  CASE item.kind = "none" -> m
    [] item.kind = "Get" -> Inc(Inc(m, "REQUEST"), "REQUEST_OK")
    [] item.kind = "Reconnect" ->
         Inc(Inc(Inc(m, "REQUEST"), "SESSION_CLOSED_CLIENT"), "REQUEST_RECONNECT")
    [] OTHER -> Inc(m, "REQUEST")

HttpRecvCounters(m, item) ==
  CASE item.kind = "none" -> m
    [] item.kind = "Get" -> Inc(Inc(m, "REQUEST"), "REQUEST_OK")
    [] item.kind = "Reconnect" ->
         Inc(Inc(Inc(m, "REQUEST"), "SESSION_CLOSED_CLIENT"), "REQUEST_RECONNECT")
    [] OTHER -> Inc(Inc(m, "REQUEST"), "REQUEST_UNSUPPORTED")

\* work_receiver.recv().await?, REQUEST, compose; Get goes out with send_request
HttpRecv(item) ==
  /\ protocol = "http" /\ HttpIdle
  /\ metrics' = HttpRecvCounters(metrics, item)
  /\ IF queue = <<>>
       THEN /\ RecvClosed
            /\ item = NoItem
            /\ Return("Err", "channel_closed")
            /\ UNCHANGED <<queue, residency, work_item, start, sent, last_conn,
                           outcome, reply_status, attempts>>
       ELSE /\ item \in Sendable
            /\ Dequeue
            /\ work_item' = Received(item, Head(queue))
            /\ UNCHANGED <<result, exit_cause, stream, client>>
            /\ CASE item.kind = "Get" ->
                      /\ start' = now
                      /\ deadline' = now + request_timeout
                      /\ pc' = "awaiting"
                      /\ sent' = sent + 1
                      /\ last_conn' = s
                      /\ UNCHANGED <<s, sender, outcome, reply_status, attempts>>
                 [] item.kind = "Reconnect" ->
                      /\ s' = None
                      /\ pc' = "top"
                      /\ attempts' = 0
                      /\ UNCHANGED <<sender, start, deadline, sent, last_conn,
                                     outcome, reply_status>>
                 [] OTHER ->
                      /\ sender' = s
                      /\ s' = None
                      /\ pc' = "top"
                      /\ attempts' = 0
                      /\ UNCHANGED <<start, deadline, sent, last_conn, outcome, reply_status>>
  /\ UNCHANGED <<env, config, builder, tasks, gen, now, peer_closed, pingbufs, RESPONSE_LATENCY,
                 opened, close_signal>>

\* the counters of the arm Ok(Ok(response)): GET_OK, RESPONSE_OK and, when the
\* response carries Connection: close, SESSION_CLOSED_SERVER
HttpOkCountersSilentClose(m, close) == Inc(Inc(m, "GET_OK"), "RESPONSE_OK")

HttpOkCounters(m, close) ==
  LET counted == Inc(Inc(m, "GET_OK"), "RESPONSE_OK")
  IN IF close THEN Inc(counted, "SESSION_CLOSED_SERVER") ELSE counted

\* the three arms of match response, stop = Instant::now() taken at the wakeup
HttpResponse(res, close) ==
  /\ protocol = "http" /\ pc = "awaiting"
  /\ \/ /\ res = "ok" /\ now < deadline
        /\ metrics' = HttpOkCounters(metrics, close)
        /\ RESPONSE_LATENCY' = Append(RESPONSE_LATENCY, DurationSince(now, start))
        /\ peer_closed' = close
        /\ close_signal' = close
        /\ outcome' = "ok"
        /\ pc' = "ready"
        /\ UNCHANGED s
     \/ /\ res = "err" /\ now < deadline /\ ~close
        /\ metrics' = Inc(Inc(metrics, "GET_EX"), "SESSION_CLOSED_CLIENT")
        /\ outcome' = "exception"
        /\ close_signal' = FALSE
        /\ s' = None
        /\ pc' = "top"
        /\ UNCHANGED <<RESPONSE_LATENCY, peer_closed>>
     \/ /\ res = "timeout" /\ now >= deadline /\ ~close
        /\ metrics' = Inc(Inc(metrics, "RESPONSE_TIMEOUT"), "SESSION_CLOSED_CLIENT")
        /\ outcome' = "timeout"
        /\ close_signal' = FALSE
        /\ s' = None
        /\ pc' = "top"
        /\ UNCHANGED <<RESPONSE_LATENCY, peer_closed>>
  /\ deadline' = NoDeadline
  /\ attempts' = 0
  /\ UNCHANGED <<env, config, builder, tasks, gen, residency, queue, now, result, exit_cause,
                 sender, stream, client, work_item, start, pingbufs, opened,
                 sent, last_conn, reply_status>>

\* s.ready().await: an error drops s, otherwise sender = Some(s).  A connection
\* whose peer announced the close is shut down by the connection task, so
\* ready() on it resolves to the closed error.
HttpReady(ok) ==
  /\ protocol = "http" /\ pc = "ready"
  /\ ok => ~peer_closed
  /\ sender' = IF ok THEN s ELSE None
  /\ s' = None
  /\ pc' = "top"
  /\ UNCHANGED <<env, config, builder, tasks, gen, residency, queue, now, deadline, result,
                 exit_cause, stream,
                 client, peer_closed, work_item, start, pingbufs, metrics,
                 RESPONSE_LATENCY, opened, history>>

\* ------------------------------------------------------------- ping driver
\* protocol_ping::ResponseParser::parse on the unconsumed bytes
ParseResponse(buf) ==
  IF Len(buf) >= Len(PONG) /\ SubSeq(buf, 1, Len(PONG)) = PONG
    THEN "Ok"
    ELSE IF Len(buf) < Len(PONG) /\ buf = SubSeq(PONG, 1, Len(buf))
      THEN "WouldBlock"
      ELSE "Invalid"

\* what one read of the socket can append to the buffer (nothing: n = 0)
ReadData == {<<>>} \cup {<<b>> : b \in Bytes} \cup {<<a, b>> : a, b \in Bytes}

\* while RUNNING { if stream.is_none() { CONNECT.increment(); connect } ; stream.take() }
PingLoopTop ==
  /\ protocol = "ping" /\ pc = "top"
  /\ IF ~RUNNING
       THEN /\ Return("Ok", "running_cleared")
            /\ UNCHANGED <<metrics, attempts>>
       ELSE IF stream = None
         THEN /\ metrics' = Inc(metrics, "CONNECT")
              /\ attempts' = attempts + 1
              /\ pc' = "connecting"
              /\ UNCHANGED <<result, exit_cause, sender, stream, client, s,
                             deadline>>
         ELSE /\ s' = stream
              /\ stream' = None
              /\ pc' = "recv"
              /\ UNCHANGED <<metrics, attempts, result, exit_cause, sender,
                             client, deadline>>
  /\ UNCHANGED <<env, config, builder, tasks, gen, residency, queue, now, peer_closed, work_item, start,
                 pingbufs, RESPONSE_LATENCY, opened, sent, last_conn, outcome, reply_status,
                 close_signal>>

\* stream = Some(TcpStream::connect("127.0.0.1:12321").await?); stream.take()
PingConnect(ok) ==
  /\ protocol = "ping" /\ pc = "connecting"
  /\ IF ok
       THEN /\ opened' = opened + 1
            /\ s' = opened + 1
            /\ peer_closed' = FALSE
            /\ pc' = "recv"
            /\ UNCHANGED <<result, exit_cause, sender, stream, client, deadline>>
       ELSE /\ Return("Err", "connect")
            /\ UNCHANGED <<opened, peer_closed>>
  /\ UNCHANGED <<env, config, builder, tasks, gen, residency, queue, now, work_item, start,
                 pingbufs, metrics,
                 RESPONSE_LATENCY, history>>

\* work_receiver.recv().await?, start = Instant::now(), compose or continue
PingRecv(item) ==
  /\ protocol = "ping" /\ pc = "recv"
  /\ IF queue = <<>>
       THEN /\ RecvClosed
            /\ item = NoItem
            /\ Return("Err", "channel_closed")
            /\ UNCHANGED <<queue, residency, work_item, start, write_buffer,
                           outcome, reply_status, attempts>>
       ELSE /\ item \in Sendable
            /\ Dequeue
            /\ work_item' = Received(item, Head(queue))
            /\ start' = now
            /\ UNCHANGED <<result, exit_cause, sender, stream, client, deadline>>
            /\ IF item.kind = "Ping"
                 THEN /\ write_buffer' = Append(write_buffer, "PING")
                      /\ pc' = "writing"
                      /\ UNCHANGED <<s, outcome, reply_status, attempts>>
                 ELSE /\ s' = None
                      /\ pc' = "top"
                      /\ attempts' = 0
                      /\ UNCHANGED <<write_buffer, outcome, reply_status>>
  /\ UNCHANGED <<env, config, builder, tasks, gen, now, peer_closed, remaining_time, read_buffer,
                 metrics, RESPONSE_LATENCY, opened, sent, last_conn,
                 close_signal>>

\* s.write_all(write_buffer.borrow()).await?; write_buffer.clear();
\* remaining_time = 200_000_000 and the first timeout(.., s.read(..))
PingWrite(ok) ==
  /\ protocol = "ping" /\ pc = "writing"
  /\ IF ok
       THEN /\ write_buffer' = <<>>
            /\ remaining_time' = PingTimeoutTicks
            /\ deadline' = now + PingTimeoutTicks
            /\ pc' = "reading"
            /\ sent' = sent + 1
            /\ last_conn' = s
            /\ UNCHANGED <<result, exit_cause, sender, stream, client, s>>
       ELSE /\ Return("Err", "write")
            /\ UNCHANGED <<write_buffer, remaining_time, sent, last_conn>>
  /\ UNCHANGED <<env, config, builder, tasks, gen, residency, queue, now, peer_closed, work_item, start,
                 read_buffer, metrics, RESPONSE_LATENCY, opened, outcome, reply_status,
                 close_signal, attempts>>

\* match response { Ok(Ok(_)) .. , Ok(Err(_)) .. , Err(_) .. } with stop = Instant::now()
PingClassify(response) ==
  /\ pc' = "top"
  /\ UNCHANGED reply_status
  /\ deadline' = NoDeadline
  /\ attempts' = 0
  /\ s' = None
  /\ CASE response = "ok" ->
            /\ metrics' = Inc(Inc(metrics, "PING_OK"), "RESPONSE_OK")
            /\ stream' = s
            /\ RESPONSE_LATENCY' = Append(RESPONSE_LATENCY, DurationSince(now, start))
            /\ outcome' = "ok"
       [] response = "exception" ->
            /\ metrics' = Inc(metrics, "PING_EX")
            /\ outcome' = "exception"
            /\ UNCHANGED <<stream, RESPONSE_LATENCY>>
       [] response = "timeout" ->
            /\ metrics' = Inc(metrics, "RESPONSE_TIMEOUT")
            /\ outcome' = "timeout"
            /\ UNCHANGED <<stream, RESPONSE_LATENCY>>

\* one turn of the read loop in which the read completes with n bytes
PingRead(data) ==
  /\ protocol = "ping" /\ pc = "reading"
  /\ now < deadline
  /\ Len(read_buffer) + Len(data) <= MaxBuf
  /\ LET buf == read_buffer \o data
         parsed == ParseResponse(buf)
         budget == SaturatingSub(remaining_time, now - start)
     IN CASE parsed = "Ok" ->
               /\ read_buffer' = SubSeq(buf, Len(PONG) + 1, Len(buf))
               /\ PingClassify("ok")
               /\ UNCHANGED remaining_time
          [] parsed = "WouldBlock" ->
               /\ read_buffer' = buf
               /\ remaining_time' = budget
               /\ IF budget = 0
                    THEN PingClassify("timeout")
                    ELSE /\ deadline' = now + budget
                         /\ UNCHANGED <<pc, s, stream, metrics,
                                        RESPONSE_LATENCY, outcome, reply_status, attempts>>
          [] parsed = "Invalid" ->
               /\ read_buffer' = buf
               /\ PingClassify("exception")
               /\ UNCHANGED remaining_time
  /\ UNCHANGED <<env, config, builder, tasks, gen, residency, queue, now, result, exit_cause,
                 sender, client,
                 peer_closed, work_item, start, write_buffer, opened, sent,
                 last_conn, close_signal>>

\* the read fails: Ok(Err(_)) => break Ok(Err(()))
PingReadError ==
  /\ protocol = "ping" /\ pc = "reading"
  /\ now < deadline
  /\ PingClassify("exception")
  /\ UNCHANGED <<env, config, builder, tasks, gen, residency, queue, now, result, exit_cause,
                 sender, client,
                 peer_closed, work_item, start, pingbufs, opened, sent,
                 last_conn, close_signal>>

\* the timer of the read expires: Err(_) => break Err(())
PingReadTimeout ==
  /\ protocol = "ping" /\ pc = "reading"
  /\ now >= deadline
  /\ PingClassify("timeout")
  /\ UNCHANGED <<env, config, builder, tasks, gen, residency, queue, now, result, exit_cause,
                 sender, client,
                 peer_closed, work_item, start, pingbufs, opened, sent,
                 last_conn, close_signal>>

\* ---------------------------------------------------------- Momento driver
MomentoSupported ==
  {"Get", "Set", "HashDelete", "HashGet", "HashIncrement", "HashMultiGet",
   "HashSet"}

Reply(status, hits) == [status |-> status, hits |-> hits]

\* every answer of the cache service (or of the client library) to some call
Replies ==
  {Reply(st, 0) : st \in {"HIT", "MISS", "FOUND", "MISSING", "OK", "ERROR",
                          "None", "Err"}}
    \cup {Reply("Some", h) : h \in 0..MaxFields}

\* what can be answered to the call made for an item
MomentoReplies(item) ==
  CASE item.kind = "Get" ->
         {Reply(st, 0) : st \in {"HIT", "MISS", "ERROR", "Err"}}
    [] item.kind = "Set" ->
         {Reply(st, 0) : st \in {"OK", "ERROR", "Err"}}
    [] item.kind = "HashDelete" ->
         {Reply(st, 0) : st \in {"OK", "Err"}}
    [] item.kind = "HashGet" ->
         {Reply(st, 0) : st \in {"FOUND", "MISSING", "ERROR", "Err"}}
    [] item.kind = "HashIncrement" ->
         {Reply(st, 0) : st \in {"OK", "Err"}}
    [] item.kind = "HashMultiGet" ->
         {Reply("Some", h) : h \in 0..item.fields}
           \cup {Reply(st, 0) : st \in {"None", "Err"}}
    [] item.kind = "HashSet" ->
         {Reply(st, 0) : st \in {"OK", "ERROR", "Err"}}
    [] OTHER -> {}

\* the counter incremented before the call is made
MomentoRequestCounter(m, item) ==
  CASE item.kind = "Get" -> Inc(m, "GET")
    [] item.kind = "Set" -> Inc(m, "SET")
    [] item.kind = "HashMultiGet" -> Inc(m, "HASH_GET")
    [] item.kind = "HashSet" -> Inc(m, "HASH_SET")
    [] OTHER -> m

\* the arms of `let result = match work_item { .. }` for a call that was answered
MomentoResultErrorAsMiss(m, item, reply) ==
  LET Ok(mm) == [metrics |-> mm, result |-> "Ok"]
      Exception(mm) == [metrics |-> mm, result |-> "Exception"]
  IN CASE item.kind = "Get" ->
            CASE reply.status = "HIT" -> Ok(Inc(m, "GET_KEY_HIT"))
              [] reply.status \in {"MISS", "ERROR"} -> Ok(Inc(m, "GET_KEY_MISS"))
              [] OTHER -> Exception(Inc(m, "GET_EX"))
       [] item.kind = "Set" ->
            CASE reply.status = "OK" -> Ok(Inc(m, "SET_STORED"))
              [] OTHER -> Exception(Inc(m, "SET_EX"))
       [] item.kind = "HashDelete" ->
            CASE reply.status = "OK" -> Ok(m)
              [] OTHER -> Exception(m)
       [] item.kind = "HashGet" ->
            CASE reply.status \in {"FOUND", "MISSING"} -> Ok(m)
              [] OTHER -> Exception(m)
       [] item.kind = "HashIncrement" ->
            CASE reply.status = "OK" -> Ok(m)
              [] OTHER -> Exception(m)
       [] item.kind = "HashMultiGet" ->
            CASE reply.status = "Some" ->
                   Ok(Add(Add(m, "HASH_GET_FIELD_HIT", reply.hits),
                          "HASH_GET_FIELD_MISS", item.fields - reply.hits))
              [] reply.status = "None" ->
                   Ok(Add(m, "HASH_GET_FIELD_MISS", item.fields))
              [] OTHER -> Exception(Inc(m, "HASH_GET_EX"))
       [] item.kind = "HashSet" ->
            CASE reply.status = "OK" ->
                   Ok(Add(m, "HASH_SET_STORED", item.fields))
              [] reply.status = "ERROR" -> Exception(Inc(m, "HASH_SET_EX"))
              [] OTHER -> Exception(Inc(m, "HASH_GET_EX"))

MomentoResult(m, item, reply) ==
  LET Ok(mm) == [metrics |-> mm, result |-> "Ok"]
      Exception(mm) == [metrics |-> mm, result |-> "Exception"]
  IN CASE item.kind = "Get" ->
            CASE reply.status = "HIT" -> Ok(Inc(m, "GET_KEY_HIT"))
              [] reply.status = "MISS" -> Ok(Inc(m, "GET_KEY_MISS"))
              [] OTHER -> Exception(Inc(m, "GET_EX"))
       [] item.kind = "Set" ->
            CASE reply.status = "OK" -> Ok(Inc(m, "SET_STORED"))
              [] OTHER -> Exception(Inc(m, "SET_EX"))
       [] item.kind = "HashDelete" ->
            CASE reply.status = "OK" -> Ok(m)
              [] OTHER -> Exception(m)
       [] item.kind = "HashGet" ->
            CASE reply.status \in {"FOUND", "MISSING"} -> Ok(m)
              [] OTHER -> Exception(m)
       [] item.kind = "HashIncrement" ->
            CASE reply.status = "OK" -> Ok(m)
              [] OTHER -> Exception(m)
       [] item.kind = "HashMultiGet" ->
            CASE reply.status = "Some" ->
                   Ok(Add(Add(m, "HASH_GET_FIELD_HIT", reply.hits),
                          "HASH_GET_FIELD_MISS", item.fields - reply.hits))
              [] reply.status = "None" ->
                   Ok(Add(m, "HASH_GET_FIELD_MISS", item.fields))
              [] OTHER -> Exception(Inc(m, "HASH_GET_EX"))
       [] item.kind = "HashSet" ->
            CASE reply.status = "OK" ->
                   Ok(Add(m, "HASH_SET_STORED", item.fields))
              [] reply.status = "ERROR" -> Exception(Inc(m, "HASH_SET_EX"))
              [] OTHER -> Exception(Inc(m, "HASH_GET_EX"))

\* while RUNNING.load(..) { recv .. }
MomentoLoopTop ==
  /\ protocol = "momento" /\ pc = "top"
  /\ IF ~RUNNING
       THEN Return("Ok", "running_cleared")
       ELSE /\ pc' = "recv"
            /\ UNCHANGED <<result, exit_cause, sender, stream, client, s,
                           deadline>>
  /\ UNCHANGED <<env, config, builder, tasks, gen, residency, queue, now, peer_closed, work_item, start,
                 pingbufs, metrics, RESPONSE_LATENCY, opened, history>>

\* work_receiver.recv().await?, start = Instant::now(), the call is made
MomentoRecv(item) ==
  /\ protocol = "momento" /\ pc = "recv"
  /\ IF queue = <<>>
       THEN /\ RecvClosed
            /\ item = NoItem
            /\ Return("Err", "channel_closed")
            /\ UNCHANGED <<queue, residency, work_item, start, metrics, sent,
                           last_conn, outcome, reply_status, attempts>>
       ELSE /\ item \in Sendable
            /\ Dequeue
            /\ work_item' = Received(item, Head(queue))
            /\ start' = now
            /\ UNCHANGED <<result, exit_cause, sender, stream, client, s>>
            /\ IF item.kind \in MomentoSupported
                 THEN /\ metrics' = MomentoRequestCounter(metrics, item)
                      /\ deadline' = now + MomentoTimeoutTicks
                      /\ pc' = "awaiting"
                      /\ sent' = sent + 1
                      /\ last_conn' = client
                      /\ UNCHANGED <<outcome, reply_status, attempts>>
                 ELSE /\ pc' = "top"
                      /\ attempts' = 0
                      /\ UNCHANGED <<metrics, deadline, sent, last_conn, outcome, reply_status>>
  /\ UNCHANGED <<env, config, builder, tasks, gen, now, peer_closed, pingbufs, RESPONSE_LATENCY,
                 opened, close_signal>>

\* the call is answered within the 200 ms; match result { Ok / Exception }
MomentoResponse(reply) ==
  /\ protocol = "momento" /\ pc = "awaiting"
  /\ now < deadline
  /\ reply \in MomentoReplies(work_item)
  /\ LET r == MomentoResult(metrics, work_item, reply)
     IN IF r.result = "Ok"
          THEN /\ metrics' = Inc(r.metrics, "RESPONSE_OK")
               /\ RESPONSE_LATENCY' = Append(RESPONSE_LATENCY, DurationSince(now, start))
               /\ outcome' = "ok"
               /\ reply_status' = reply.status
          ELSE /\ metrics' = Inc(r.metrics, "RESPONSE_EX")
               /\ outcome' = "exception"
               /\ reply_status' = reply.status
               /\ UNCHANGED RESPONSE_LATENCY
  /\ pc' = "top"
  /\ deadline' = NoDeadline
  /\ attempts' = 0
  /\ UNCHANGED <<env, config, builder, tasks, gen, residency, queue, now, result, exit_cause,
                 sender, stream,
                 client, s, peer_closed, work_item, start, pingbufs, opened,
                 sent, last_conn, close_signal>>

\* Err(_) => Err(ResponseError::Timeout), then RESPONSE_TIMEOUT
MomentoTimeout ==
  /\ protocol = "momento" /\ pc = "awaiting"
  /\ now >= deadline
  /\ metrics' = Inc(metrics, "RESPONSE_TIMEOUT")
  /\ outcome' = "timeout"
  /\ reply_status' = "none"
  /\ pc' = "top"
  /\ deadline' = NoDeadline
  /\ attempts' = 0
  /\ UNCHANGED <<env, config, builder, tasks, gen, residency, queue, now, result, exit_cause,
                 sender, stream,
                 client, s, peer_closed, work_item, start, pingbufs,
                 RESPONSE_LATENCY, opened, sent, last_conn, close_signal>>

\* --------------------------------------------------------------- generator
\* every Receiver of the queue has been dropped: launch_tasks hands its
\* Receiver to the tasks, and the task of the run has returned
ReceiversDropped == pc = "returned"

\* send completes at once when the queue has room and suspends while it is full
HasRoomAlways(q) == TRUE

HasRoom(q) == Len(q) < QueueCap

\* the loop condition `while RUNNING.load(Ordering::Relaxed)`
KeepGoingRegardless(running) == TRUE

KeepGoing(running) == running

\* the bound of `for _ in 0..quanta`
BatchDoneEarly(n, q) == n >= 1

BatchDone(n, q) == n = q

\* `let _ = work_sender.send(..).await`: the result of send is discarded and
\* the loop goes on to the statement that follows
PropagateResult(res, next) == IF res = "Err" THEN "returned" ELSE next

IgnoreResult(res, next) == next

\* get_requests is spawned: unrated when rate is None, otherwise
\* convert_ratelimit(rate) gives the quanta of a tick (and the interval)
GenStart(q) ==
  /\ generator = "start"
  /\ quanta' = IF rate = None THEN 1 ELSE q
  /\ rate = None => q = 1
  /\ generator' = "top"
  /\ UNCHANGED <<RUNNING, queue_closed, config, builder, tasks, queue, produced, now, rate,
                 batch, ticks, late, stale, driver>>

\* the head of either loop: return Ok(()) once RUNNING is cleared, otherwise
\* go to send (unrated) or to interval.tick() (rated)
GenLoopTop ==
  /\ generator = "top"
  /\ IF KeepGoing(RUNNING)
       THEN /\ produced + quanta <= MaxItems
            /\ ticks < MaxItems
            /\ generator' = IF rate = None THEN "send" ELSE "tick"
       ELSE generator' = "returned"
  /\ batch' = 0
  /\ UNCHANGED <<RUNNING, queue_closed, config, builder, tasks, queue, produced, now, rate,
                 quanta, ticks, late, stale, driver>>

\* interval.tick().await completes
GenTick ==
  /\ generator = "tick"
  /\ generator' = "send"
  /\ ticks' = ticks + 1
  /\ late' = IF RUNNING THEN late ELSE [late EXCEPT !.ticks = @ + 1]
  /\ UNCHANGED <<RUNNING, queue_closed, config, builder, tasks, queue, produced, now, rate,
                 quanta, batch, stale, driver>>

\* `let _ = work_sender.send(WorkItem::Get { key }).await` completes: the item
\* is queued, or send fails because no Receiver is left and the error is ignored
GenSend ==
  /\ generator = "send"
  /\ IF ReceiversDropped
       THEN UNCHANGED <<queue, produced, late>>
       ELSE /\ HasRoom(queue)
            /\ queue' = Append(queue, produced + 1)
            /\ produced' = produced + 1
            /\ late' = IF RUNNING THEN late ELSE [late EXCEPT !.items = @ + 1]
  /\ batch' = batch + 1
  /\ generator' = IgnoreResult(IF ReceiversDropped THEN "Err" ELSE "Ok",
                              IF rate = None \/ BatchDone(batch', quanta)
                                THEN "top" ELSE "send")
  /\ UNCHANGED <<RUNNING, queue_closed, config, builder, tasks, now, rate, quanta, ticks, stale,
                 driver>>

\* ----------------------------------------------------------- configuration
\* everything but the configuration trees: the tasks, the queue, the Builder
execution == <<env, config, gen, stale, queue, now, driver, tasks>>

Digits == <<"0", "1", "2", "3", "4", "5", "6", "7", "8", "9">>

\* format!("{}", n) of an unsigned integer
RECURSIVE Decimal(_)
Decimal(n) ==
  IF n < 10
    THEN <<Digits[n + 1]>>
    ELSE Append(Decimal(n \div 10), Digits[(n % 10) + 1])

\* format!("{:0>len$}", n): filled with zeros on the left up to the width len,
\* and left as it is when it is wider
ZeroPadded(n, len) ==
  LET d == Decimal(n)
  IN IF Len(d) >= len THEN d ELSE [i \in 1..(len - Len(d)) |-> "0"] \o d

\* characters rng.sample(Alphanumeric) returns
Alphanumeric == {"a", "7"}

\* the strings a run of samples of Alphanumeric fills a key or value with
AlphanumericStrings ==
  UNION {[1..l -> Alphanumeric] : l \in 1..MaxKeyLength}

FieldTypes == {"Alphanumeric", "U32"}

\* the commands of a keyspace; Set writes a value
Commands == {"Get", "Set"}

\* an entry of `values`: length, field_type and cardinality
ValueConfs ==
  [length : {MaxKeyLength}, field_type : FieldTypes,
   cardinality : {MaxCardinality}]

\* the keyspaces a configuration file can hold: key_distribution is absent or
\* names a model, commands is not empty, values holds no entry or one
KeyspaceFiles ==
  [built : {"file"},
   length : 1..MaxKeyLength,
   cardinality : 1..MaxCardinality,
   key_type : FieldTypes,
   key_distribution : {"None", "Uniform", "Zipf"},
   commands : (SUBSET Commands) \ {{}},
   values : {<<>>} \cup {<<v>> : v \in ValueConfs}]

\* Uniform::new(0, cardinality) or ZipfDistribution::new(cardinality, exponent)
KeyDistributionNew(k) ==
  IF k.key_distribution = "Zipf"
    THEN [model |-> "Zipf", num_elements |-> k.cardinality]
    ELSE [model |-> "Uniform", low |-> 0, high |-> k.cardinality]

\* KeyDistribution::sample: Uniform draws from low..high-1, Zipf draws a rank
\* from 1..num_elements
KeyDistributionSample(d) ==
  IF d.model = "Zipf" THEN 1..d.num_elements ELSE d.low..(d.high - 1)

\* the body of `for k in config_file.keyspaces()` in Config::new.  In
\* config/mod.rs an empty `values` panics; in config.rs it gives value_dist None
KeyspaceNew(tree, k) ==
  IF tree = "config/mod.rs" /\ k.values = <<>>
    THEN [built |-> "panic"]
    ELSE [built |-> "yes",
          length |-> k.length,
          cardinality |-> k.cardinality,
          commands |-> k.commands,
          values |-> k.values,
          value_dist |-> IF k.values = <<>> THEN "None" ELSE "Some",
          key_type |-> k.key_type,
          key_distribution |-> KeyDistributionNew(k)]

\* Keyspace::generate_key of config/mod.rs: length alphanumeric bytes, or the
\* sample of the key distribution as a zero-padded decimal
generate_key(ks, n, bytes) ==
  IF ks.key_type = "Alphanumeric" THEN bytes ELSE ZeroPadded(n, ks.length)

\* Keyspace::generate_key of config.rs: length alphanumeric bytes, whatever
\* the key_type
generate_key_config_rs(ks, n, bytes) == bytes

\* Keyspace::generate_value of config/mod.rs, for the entry of values drawn
generate_value(ks, n, bytes) ==
  IF ks.values[1].field_type = "Alphanumeric"
    THEN bytes
    ELSE ZeroPadded(n, ks.values[1].length)

\* Keyspace::generate_value of config.rs: alphanumeric bytes, or the empty
\* value when value_dist is None
generate_value_config_rs(ks, n, bytes) ==
  IF ks.value_dist = "Some" THEN bytes ELSE <<>>

\* Config::new builds the Keyspace of the keyspace in the file
ConfigNew ==
  /\ keyspace_file # NoKeyspace
  /\ keyspace = NoKeyspace
  /\ keyspace' = KeyspaceNew(config_tree, keyspace_file)
  /\ UNCHANGED <<config_tree, keyspace_file, key, value, runtime, execution>>

\* the input a call does not draw is left at its first value
Undrawn(n, bytes) == n = 0 /\ bytes = <<"a">>

\* a call of generate_key: n is the sample of the key distribution, bytes the
\* samples of Alphanumeric
GenerateKey(n, bytes) ==
  /\ keyspace.built = "yes"
  /\ IF config_tree = "config/mod.rs" /\ keyspace.key_type = "U32"
       THEN /\ n \in KeyDistributionSample(keyspace.key_distribution)
            /\ bytes = <<"a">>
       ELSE /\ n = 0
            /\ Len(bytes) = keyspace.length
  /\ key' = IF config_tree = "config/mod.rs"
              THEN <<generate_key(keyspace, n, bytes)>>
              ELSE <<generate_key_config_rs(keyspace, n, bytes)>>
  /\ UNCHANGED <<config_tree, keyspace_file, keyspace, value, runtime,
                 execution>>

\* a call of generate_value: n is the sample of gen_range(0..cardinality),
\* bytes the samples of Alphanumeric
GenerateValue(n, bytes) ==
  /\ keyspace.built = "yes"
  /\ CASE keyspace.values = <<>> -> Undrawn(n, bytes)
       [] /\ keyspace.values # <<>>
          /\ config_tree = "config/mod.rs"
          /\ keyspace.values[1].field_type = "U32" ->
            /\ n \in 0..(keyspace.values[1].cardinality - 1)
            /\ bytes = <<"a">>
       [] OTHER ->
            /\ n = 0
            /\ Len(bytes) = keyspace.values[1].length
  /\ value' = IF config_tree = "config/mod.rs"
                THEN <<generate_value(keyspace, n, bytes)>>
                ELSE <<generate_value_config_rs(keyspace, n, bytes)>>
  /\ UNCHANGED <<config_tree, keyspace_file, keyspace, key, runtime,
                 execution>>

\* ----------------------------------------------------------------- Builder
\* Ratelimiter::new(capacity, quantum, rate): a bucket that holds at most
\* capacity tokens and is refilled quantum tokens at a time
RatelimiterNew(capacity, quantum, r) ==
  [capacity |-> capacity, quantum |-> quantum, rate |-> r, available |-> 0]

\* `if let Some(r) = .. { Some(Arc::new(Ratelimiter::new(threads, 1, r))) }`
RatelimitOption(r) ==
  IF r = None THEN <<>> ELSE <<RatelimiterNew(threads, 1, r)>>

\* Builder::new: the three limiters are built; the request one goes to the
\* worker and the admin, the reconnect one to the admin, and the connect one
\* is handed to nobody and dropped when new returns
BuilderNew ==
  /\ main = "new"
  /\ main' = "built"
  /\ ratelimiters' =
       [d \in Domains |->
          IF d = "connect" THEN <<>> ELSE RatelimitOption(ratelimit[d])]
  /\ UNCHANGED <<threads, ratelimit, issued, admin_thread, worker_thread, keys,
                 execution>>

\* Builder::spawn: one thread for admin.run(), one for worker.run()
BuilderSpawn ==
  /\ main = "built"
  /\ main' = "spawned"
  /\ admin_thread' = "running"
  /\ worker_thread' = "running"
  /\ UNCHANGED <<threads, ratelimit, ratelimiters, issued, keys, execution>>

\* admin.run() returns
AdminRun ==
  /\ admin_thread = "running"
  /\ admin_thread' = "finished"
  /\ UNCHANGED <<threads, ratelimit, ratelimiters, issued, main, worker_thread,
                 keys, execution>>

\* worker.run() returns
WorkerRun ==
  /\ worker_thread = "running"
  /\ worker_thread' = "finished"
  /\ UNCHANGED <<threads, ratelimit, ratelimiters, issued, main, admin_thread,
                 keys, execution>>

\* Runtime::wait: `let _ = self.admin_thread.join()` returns once the admin
\* thread has finished
Joined == admin_thread = "finished"

RuntimeWait ==
  /\ main = "spawned"
  /\ Joined
  /\ main' = "returned"
  /\ UNCHANGED <<threads, ratelimit, ratelimiters, issued, admin_thread,
                 worker_thread, keys, execution>>

\* time passes for a limiter: a quantum of tokens is added, up to the capacity
RatelimiterRefill(d) ==
  /\ ratelimiters[d] # <<>>
  /\ LET r == ratelimiters[d][1]
         filled == IF r.available + r.quantum > r.capacity
                     THEN r.capacity
                     ELSE r.available + r.quantum
     IN /\ filled # r.available
        /\ ratelimiters' =
             [ratelimiters EXCEPT ![d] = <<[r EXCEPT !.available = filled]>>]
  /\ UNCHANGED <<threads, ratelimit, issued, main, admin_thread, worker_thread,
                 keys, execution>>

\* a consumer on the worker thread acquires one token for an operation; with
\* no token available it stays suspended
RatelimiterWait(d) ==
  /\ worker_thread = "running"
  /\ ratelimiters[d] # <<>>
  /\ ratelimiters[d][1].available > 0
  /\ issued[d] < MaxTokens
  /\ ratelimiters' =
       [ratelimiters EXCEPT ![d] = <<[@[1] EXCEPT !.available = @ - 1]>>]
  /\ issued' = [issued EXCEPT ![d] = @ + 1]
  /\ UNCHANGED <<threads, ratelimit, main, admin_thread, worker_thread, keys,
                 execution>>

\* ----------------------------------------------------------- specification
Environment ==
  \/ Produce
  \/ CloseQueue
  \/ ClearRunning
  \/ Tick
  \/ \E ok \in BOOLEAN : LaunchTasks(ok)

HttpTask ==
  \/ HttpLoopTop
  \/ \E res \in {"ok", "err", "timeout"} : HttpConnect(res)
  \/ \E ok \in BOOLEAN : HttpHandshake(ok)
  \/ HttpSleep
  \/ \E item \in WorkItem \cup {NoItem} : HttpRecv(item)
  \/ \E res \in {"ok", "err", "timeout"}, close \in BOOLEAN : HttpResponse(res, close)
  \/ \E ok \in BOOLEAN : HttpReady(ok)

PingTask ==
  \/ PingLoopTop
  \/ \E ok \in BOOLEAN : PingConnect(ok)
  \/ \E item \in WorkItem \cup {NoItem} : PingRecv(item)
  \/ \E ok \in BOOLEAN : PingWrite(ok)
  \/ \E data \in ReadData : PingRead(data)
  \/ PingReadError
  \/ PingReadTimeout

MomentoTask ==
  \/ MomentoLoopTop
  \/ \E item \in WorkItem \cup {NoItem} : MomentoRecv(item)
  \/ \E reply \in Replies : MomentoResponse(reply)
  \/ MomentoTimeout

Next == Environment \/ HttpTask \/ PingTask \/ MomentoTask

Spec == Init /\ [][Next]_vars

\* a run whose configuration selects the HTTP driver
InitHttp == Init /\ protocol = "http"

NextHttp == Environment \/ HttpTask

SpecHttp == InitHttp /\ [][NextHttp]_vars

\* a run whose configuration selects the ping driver
InitPing == Init /\ protocol = "ping"

NextPing == Environment \/ PingTask

SpecPing == InitPing /\ [][NextPing]_vars

\* a run whose configuration selects the Momento driver
InitMomento == Init /\ protocol = "momento"

NextMomento == Environment \/ MomentoTask

SpecMomento == InitMomento /\ [][NextMomento]_vars

\* a run of get_requests, rated or unrated
InitGenerator ==
  /\ InitTasks
  /\ OneTask
  /\ NoConfigFile
  /\ NoBuilder
  /\ generator = "start"
  /\ rate \in {None, 1}

GeneratorTask ==
  \/ \E q \in 1..MaxQuanta : GenStart(q)
  \/ GenLoopTop
  \/ GenTick
  \/ GenSend

\* the generator feeding the Momento driver
InitWorkload == InitGenerator /\ protocol = "momento"

NextWorkload ==
  \/ CloseQueue
  \/ ClearRunning
  \/ Tick
  \/ \E ok \in BOOLEAN : LaunchTasks(ok)
  \/ GeneratorTask
  \/ MomentoTask

SpecWorkload == InitWorkload /\ [][NextWorkload]_vars

\* the generator of a run whose HTTP task ends at its first statement,
\* Connector::new(&config)?, and drops the only Receiver of the queue
InitOrphan == InitGenerator /\ protocol = "http"

NextOrphan ==
  \/ CloseQueue
  \/ ClearRunning
  \/ Tick
  \/ \E ok \in {FALSE} : LaunchTasks(ok)
  \/ GeneratorTask

SpecOrphan == InitOrphan /\ [][NextOrphan]_vars

\* the generator feeding the HTTP driver, up to and including shutdown: the
\* runtime polls every task that can run, and the clock advances
InitShutdown == InitGenerator /\ protocol = "http"

NextShutdown ==
  \/ CloseQueue
  \/ ClearRunning
  \/ Tick
  \/ \E ok \in BOOLEAN : LaunchTasks(ok)
  \/ GeneratorTask
  \/ HttpTask

FairShutdown ==
  /\ InitShutdown
  /\ [][NextShutdown]_vars
  /\ WF_vars(GeneratorTask)
  /\ WF_vars(HttpTask \/ \E ok \in BOOLEAN : LaunchTasks(ok))
  /\ WF_vars(Tick)

\* a configuration file is read and keys and values are generated from the
\* keyspace built from it; no task is launched
InitConfig ==
  /\ InitTasks
  /\ OneTask
  /\ NoBuilder
  /\ generator = "absent"
  /\ rate = None
  /\ protocol = "momento"
  /\ request_timeout = 1
  /\ config_tree \in ConfigTrees
  /\ keyspace_file \in KeyspaceFiles
  /\ keyspace = NoKeyspace
  /\ NoKeys

NextConfig ==
  \/ ConfigNew
  \/ \E n \in 0..MaxCardinality, bytes \in AlphanumericStrings :
       GenerateKey(n, bytes)
  \/ \E n \in 0..MaxCardinality, bytes \in AlphanumericStrings :
       GenerateValue(n, bytes)

SpecConfig == InitConfig /\ [][NextConfig]_vars

\* the main thread builds the Builder from a configuration, spawns the two
\* threads and waits; no task is launched and no key generated
InitRuntime ==
  /\ InitTasks
  /\ OneTask
  /\ NoConfigFile
  /\ generator = "absent"
  /\ rate = None
  /\ protocol = "momento"
  /\ request_timeout = 1
  /\ threads \in 1..MaxThreads
  /\ ratelimit \in [Domains -> {None, 1}]
  /\ NoRatelimiters
  /\ NoThreads

NextRuntime ==
  \/ BuilderNew
  \/ BuilderSpawn
  \/ AdminRun
  \/ WorkerRun
  \/ RuntimeWait
  \/ \E d \in Domains : RatelimiterRefill(d)
  \/ \E d \in Domains : RatelimiterWait(d)

SpecRuntime == InitRuntime /\ [][NextRuntime]_vars

\* the launch of the tasks of a configuration: any protocol, any pool size,
\* any non-empty list of target endpoints
InitLaunch ==
  /\ InitTasks
  /\ poolsize \in 1..MaxPoolsize
  /\ endpoints \in (SUBSET Endpoints) \ {{}}
  /\ NoConfigFile
  /\ NoBuilder
  /\ generator = "absent"
  /\ rate = None

NextLaunch ==
  \/ \E ok \in BOOLEAN : LaunchTasks(ok)
  \/ Produce
  \/ CloseQueue
  \/ ClearRunning

SpecLaunch == InitLaunch /\ [][NextLaunch]_vars

\* a run of the HTTP driver under a configuration that sets
\* connection.ratelimit, the Builder being made from the same configuration
InitConnect ==
  /\ InitTasks
  /\ OneTask
  /\ NoConfigFile
  /\ generator = "absent"
  /\ rate = None
  /\ protocol = "http"
  /\ request_timeout = 1
  /\ threads = 1
  /\ ratelimit = [d \in Domains |-> IF d = "connect" THEN 1 ELSE None]
  /\ NoRatelimiters
  /\ NoThreads

NextConnect == BuilderNew \/ NextHttp

SpecConnect == InitConnect /\ [][NextConnect]_vars

TypeOK ==
  /\ RUNNING \in BOOLEAN
  /\ protocol \in Protocols
  /\ pc \in {"launch", "top", "connecting", "handshaking", "sleeping", "recv",
             "awaiting", "writing", "reading", "ready", "returned"}
  /\ result \in {"none", "Ok", "Err", "Exit"}
  /\ metrics \in [CounterNames -> Nat]
  /\ Len(queue) <= QueueCap
  /\ generator \in {"absent", "start", "top", "tick", "send", "returned"}
  /\ rate \in {None, 1}
  /\ quanta \in 0..MaxQuanta
  /\ batch \in 0..MaxQuanta
  /\ stale \in 0..QueueCap

\* ------------------------------------------------------------- vocabulary
\* the transport the task keeps for its next iteration
Transport ==
  CASE protocol = "http" -> sender
    [] protocol = "ping" -> stream
    [] protocol = "momento" -> client

\* the transport the task holds while it pulls and handles an item
Held == IF protocol = "momento" THEN client ELSE s

Supported ==
  CASE protocol = "http" -> {"Get"}
    [] protocol = "ping" -> {"Ping"}
    [] protocol = "momento" -> MomentoSupported

Bumped(name) == metrics'[name] = metrics[name] + 1

Same(name) == metrics'[name] = metrics[name]

InFlight == pc \in {"awaiting", "reading"}

\* steps of the task, told apart by what they do to the task's position
Pull == pc = "recv" /\ queue # <<>> /\ queue' = Tail(queue)

PullOf(kinds) == Pull /\ work_item'.kind \in kinds

Send == sent' = sent + 1

Classified(o) == InFlight /\ pc' \notin {"awaiting", "reading"} /\ outcome' = o

SendFails == pc = "writing" /\ pc' = "returned"

ConnectFails ==
  /\ pc \in {"connecting", "handshaking"}
  /\ pc' \notin {"connecting", "handshaking", "recv"}

Dropped == Transport' = None /\ (protocol # "momento" => s' = None)

ResponseCounters ==
  {"RESPONSE_OK", "RESPONSE_EX", "RESPONSE_TIMEOUT", "GET_OK", "GET_EX",
   "GET_KEY_HIT", "GET_KEY_MISS", "SET_STORED", "SET_EX", "HASH_GET_EX",
   "HASH_GET_FIELD_HIT", "HASH_GET_FIELD_MISS", "HASH_SET_STORED",
   "HASH_SET_EX", "PING_OK", "PING_EX"}

\* the exception counter of a command, for the commands that have one
ExCounter(kind) ==
  CASE kind = "Get" -> "GET_EX"
    [] kind = "Set" -> "SET_EX"
    [] kind = "HashSet" -> "HASH_SET_EX"
    [] kind \in {"HashGet", "HashMultiGet"} -> "HASH_GET_EX"
    [] kind = "Ping" -> "PING_EX"

HasExCounter == {"Get", "Set", "HashSet", "HashGet", "HashMultiGet", "Ping"}

\* ------------------------------------------------------------------ claims
\* C1: in every driver a request that times out counts one RESPONSE_TIMEOUT and
\* one SESSION_CLOSED_CLIENT and drops the transport, so that the next request
\* goes out on a transport opened after it.
C1_TimeoutClosesSession ==
  /\ [][Classified("timeout") =>
          /\ Bumped("RESPONSE_TIMEOUT")
          /\ Bumped("SESSION_CLOSED_CLIENT")
          /\ Dropped]_vars
  /\ [][Send /\ outcome = "timeout" => last_conn' > last_conn]_vars

\* C2: in every driver a request that ends in a protocol exception counts one
\* exception of its command and one SESSION_CLOSED_CLIENT, and the transport is
\* dropped before the next item is handled.
C2_ExceptionClosesSession ==
  /\ [][Classified("exception") \/ SendFails =>
          /\ work_item.kind \in HasExCounter => Bumped(ExCounter(work_item.kind))
          /\ Bumped("SESSION_CLOSED_CLIENT")
          /\ Dropped]_vars
  /\ [][Pull /\ outcome = "exception" => Held > last_conn]_vars

\* C3: in every driver SESSION and CONNECT count the transports opened
\* successfully; a failed or timed-out connect attempt counts only CONNECT_EX or
\* CONNECT_TIMEOUT.
C3_ConnectCountsOpened ==
  /\ [](pc \notin {"launch", "connecting", "handshaking"} =>
          /\ metrics["SESSION"] = opened
          /\ metrics["CONNECT"] = opened)
  /\ [][ConnectFails =>
          /\ metrics'["CONNECT_EX"] + metrics'["CONNECT_TIMEOUT"]
               = metrics["CONNECT_EX"] + metrics["CONNECT_TIMEOUT"] + 1
          /\ Same("SESSION")]_vars

\* C4: a failed connect or handshake is followed by a sleep of 100 ms and a new
\* pass through the RUNNING check; no item is pulled and no request is in
\* flight while the task has no transport.
C4_SleepThenRetry ==
  /\ [][ConnectFails => pc' = "sleeping" /\ deadline' = now + SleepTicks]_vars
  /\ [][pc = "sleeping" /\ pc' # "sleeping" => pc' = "top" /\ now >= deadline]_vars
  /\ [](pc \in {"recv", "writing", "awaiting", "reading"} => Held # None)

\* C5: a driver task returns only because RUNNING was cleared or the queue was
\* closed; a connect failure, a write failure or a failed request never ends it.
C5_NoRuntimeFaultEndsTask ==
  [][pc \notin {"launch", "returned"} /\ pc' = "returned" =>
       exit_cause' \in {"running_cleared", "channel_closed"}]_vars

\* C6: pulling a Reconnect item drops the transport, counts one
\* SESSION_CLOSED_CLIENT and one REQUEST_RECONNECT, sends nothing, and exactly
\* one CONNECT is counted before the next item is pulled.
C6_ReconnectItem ==
  /\ [][PullOf({"Reconnect"}) =>
          /\ Bumped("SESSION_CLOSED_CLIENT")
          /\ Bumped("REQUEST_RECONNECT")
          /\ sent' = sent
          /\ pc' = "top"
          /\ Dropped]_vars
  /\ [][Pull /\ work_item.kind = "Reconnect" => attempts = 1]_vars

\* C7: in every driver an item whose command the protocol does not support
\* counts one REQUEST_UNSUPPORTED, sends nothing and leaves the response and
\* exception counters alone.
C7_UnsupportedCounted ==
  [][PullOf(WorkItemKinds \ (Supported \cup {"Reconnect"})) =>
       /\ Bumped("REQUEST_UNSUPPORTED")
       /\ sent' = sent
       /\ \A c \in ResponseCounters : Same(c)]_vars

\* C8: an unsupported item leaves the transport in place: it is the one the
\* task keeps, and no connect is attempted before the next item.
C8_UnsupportedKeepsTransport ==
  /\ [][PullOf(WorkItemKinds \ (Supported \cup {"Reconnect"})) =>
          Transport' = Held /\ Held # None]_vars
  /\ [](work_item.kind \in WorkItemKinds \ (Supported \cup {"Reconnect"}) =>
          attempts = 0)

\* the counters that record a successful answer to a command
OkCounters(kind) ==
  CASE kind = "Get" -> {"GET_OK", "GET_KEY_HIT", "GET_KEY_MISS"}
    [] kind = "Set" -> {"SET_STORED"}
    [] kind = "HashSet" -> {"HASH_SET_STORED"}
    [] kind \in {"HashGet", "HashMultiGet"} ->
         {"HASH_GET_FIELD_HIT", "HASH_GET_FIELD_MISS"}
    [] kind = "Ping" -> {"PING_OK"}
    [] OTHER -> {}

\* C9: a request classified Ok counts once in a per-command ok counter and once
\* in RESPONSE_OK and records the one sample t1 - t0; an exception or a timeout
\* records no sample, so the heatmap holds RESPONSE_OK samples.
C9_OkCountedWithLatency ==
  /\ [][Classified("ok") =>
          /\ \E c \in OkCounters(work_item.kind) : Bumped(c)
          /\ Bumped("RESPONSE_OK")
          /\ RESPONSE_LATENCY' = Append(RESPONSE_LATENCY, now - start)]_vars
  /\ [][Classified("exception") \/ Classified("timeout") =>
          RESPONSE_LATENCY' = RESPONSE_LATENCY]_vars
  /\ [](Len(RESPONSE_LATENCY) = metrics["RESPONSE_OK"])

C12_CancellationSafe ==
  /\ [](rate # None => late.ticks <= 1 /\ late.items <= quanta)
  /\ [][rate # None /\ generator = "top" /\ ~RUNNING /\ generator' # generator =>
          generator' = "returned"]_vars

\* RUNNING was cleared while the generator waited for a tick: it took that
\* tick, sent a full batch of two and returned
C12_Witness ==
  /\ rate # None
  /\ generator = "returned"
  /\ quanta = 2
  /\ late = [ticks |-> 1, items |-> 2]

\* C13: a recv that fails because the queue is closed ends the task with the
\* channel-closed error and changes no counter and no heatmap.
C13_ClosedQueueEndsQuietly ==
  [][pc = "recv" /\ RecvClosed /\ pc' # pc =>
       /\ pc' = "returned"
       /\ exit_cause' = "channel_closed"
       /\ metrics' = metrics
       /\ RESPONSE_LATENCY' = RESPONSE_LATENCY]_vars

\* the HTTP task handled one request and then ended on the closed queue
C13_Witness ==
  /\ protocol = "http"
  /\ pc = "returned"
  /\ exit_cause = "channel_closed"
  /\ metrics["REQUEST"] = 1
  /\ metrics["GET_OK"] = 1

\* C14: the rated generator sends items only in the batch that follows a tick,
\* a batch ends after exactly quanta sends, and as long as a receiver is left
\* the items sent are quanta per tick taken.
C14_QuantaPerTick ==
  /\ [][rate # None /\ produced' # produced =>
          generator = "send" /\ produced' = produced + 1]_vars
  /\ [][rate # None /\ generator = "send" /\ generator' # "send" =>
          generator' = "top" /\ batch' = quanta]_vars
  /\ [][rate # None /\ generator # "send" /\ generator' = "send" =>
          generator = "tick" /\ batch' = 0 /\ ticks' = ticks + 1]_vars
  /\ [](rate # None /\ ~ReceiversDropped =>
          CASE generator \in {"top", "tick", "returned"} -> produced = ticks * quanta
            [] generator = "send" -> produced = (ticks - 1) * quanta + batch
            [] OTHER -> produced = 0)

\* a batch of two has been sent after the one tick taken, and the generator is
\* back at the head of its loop
C14_Witness ==
  /\ rate # None
  /\ quanta = 2
  /\ generator = "top"
  /\ ticks = 1
  /\ produced = 2
  /\ ~ReceiversDropped

\* C15: the queue never holds more than its capacity, a send on a full queue
\* does not complete while a receiver is left, and the items sent are those
\* the driver has received followed by those still queued, in order.
C15_Backpressure ==
  /\ [](Len(queue) <= QueueCap)
  /\ [](queue = [i \in 1..(produced - work_item.sequence) |-> work_item.sequence + i])
  /\ [][generator = "send" /\ Len(queue) = QueueCap /\ ~ReceiversDropped =>
          UNCHANGED <<generator, batch, queue, produced>>
            \/ (queue' = Tail(queue) /\ UNCHANGED <<generator, batch, produced>>)]_vars

\* the second send of a batch is suspended on the full queue while the
\* driver, which has not yet pulled an item, is at the head of its loop
C15_Witness ==
  /\ generator = "send"
  /\ batch = 1
  /\ Len(queue) = QueueCap
  /\ produced = 1
  /\ pc = "top"

\* items of the HTTP driver that have been classified, and its requests answered
HttpAnswered ==
  metrics["GET_OK"] + metrics["GET_EX"] + metrics["RESPONSE_TIMEOUT"]

HttpClassified ==
  HttpAnswered + metrics["REQUEST_RECONNECT"] + metrics["REQUEST_UNSUPPORTED"]

C17_LatencyExcludesQueue ==
  /\ [][work_item' # work_item /\ Send => start' = now]_vars
  /\ [][InFlight => start' = start]_vars
  /\ [][RESPONSE_LATENCY' # RESPONSE_LATENCY =>
          /\ InFlight
          /\ RESPONSE_LATENCY' = Append(RESPONSE_LATENCY, now - start)]_vars
  /\ [][work_item' # work_item => ~InFlight]_vars

\* an item that sat in the queue across a clock tick was answered at once:
\* its sample is 0, although a tick passed since it was sent to the queue
C17_Witness ==
  /\ resided
  /\ outcome = "ok"
  /\ pc = "top"
  /\ RESPONSE_LATENCY # <<>>
  /\ RESPONSE_LATENCY[Len(RESPONSE_LATENCY)] = 0

\* a transport fault: a failed request, a timeout, or a transport that ready()
\* finds unusable although the peer did not announce a close
TransportFault ==
  \/ Classified("exception")
  \/ Classified("timeout")
  \/ SendFails
  \/ (pc = "ready" /\ pc' = "top" /\ Transport' = None /\ ~peer_closed)

\* C18: SESSION_CLOSED_CLIENT counts the transport faults (and the Reconnect
\* items), one each, and a task that holds a transport has opened more
\* sessions than it has counted faults.
C18_ReconnectAccounting ==
  /\ [][TransportFault => Bumped("SESSION_CLOSED_CLIENT")]_vars
  /\ [][~Same("SESSION_CLOSED_CLIENT") => TransportFault \/ PullOf({"Reconnect"})]_vars
  /\ [](Held # None =>
          metrics["SESSION"]
            > metrics["SESSION_CLOSED_CLIENT"] - metrics["REQUEST_RECONNECT"])

\* C19: in a ping run whose request.timeout is the 200 ms the driver uses,
\* the budget after a partial read is the timeout less the time since t0, and
\* a request is classified as timeout only when the timeout has elapsed.
C19_BudgetFromStart ==
  /\ [][request_timeout = PingTimeoutTicks /\ pc = "reading" /\ pc' = "reading"
            /\ read_buffer' # read_buffer =>
          remaining_time' = request_timeout - (now - start)]_vars
  /\ [][request_timeout = PingTimeoutTicks /\ Classified("timeout") =>
          now - start >= request_timeout]_vars

\* C20: the wait for a response ends in a timeout exactly when request.timeout
\* has elapsed since t0: the timer is armed with it, an answer classified
\* earlier came before it, a timeout is classified at it.
C20_ConfiguredTimeout ==
  /\ [][Send => deadline' = now + request_timeout]_vars
  /\ [][Classified("ok") \/ Classified("exception") =>
          now - start < request_timeout]_vars
  /\ [][Classified("timeout") => now - start = request_timeout]_vars

\* C21: the HTTP driver multiplexes: while a request is in flight on the
\* connection and an item is queued, the task can send a second request on
\* that connection before the first is answered.
C21_Multiplexes ==
  protocol = "http" /\ pc = "awaiting" /\ queue # <<>> =>
    ENABLED (HttpTask /\ sent' = sent + 1 /\ last_conn' = last_conn)

\* the counters a Get of the Momento driver is refined into
GetRefinements == {"GET_KEY_HIT", "GET_KEY_MISS", "GET_EX"}

GetRefinement(st) ==
  CASE st = "HIT" -> "GET_KEY_HIT"
    [] st = "MISS" -> "GET_KEY_MISS"
    [] OTHER -> "GET_EX"

IsDecimal(k) == \A i \in 1..Len(k) : \E d \in 1..10 : Digits[d] = k[i]

\* the integer a string of decimal digits stands for
RECURSIVE Decode(_)
Decode(k) ==
  IF k = <<>>
    THEN 0
    ELSE 10 * Decode(SubSeq(k, 1, Len(k) - 1))
           + (CHOOSE d \in 0..9 : Digits[d + 1] = k[Len(k)])

\* C23: a generated key is exactly keyspace.length bytes long, and with
\* key_type U32 it is a zero-padded decimal that decodes to an integer in
\* 0..cardinality-1, for the Uniform and for the Zipf distribution.
C23_KeyShape ==
  key # <<>> =>
    /\ Len(key[1]) = keyspace.length
    /\ keyspace.key_type = "U32" =>
         /\ IsDecimal(key[1])
         /\ Decode(key[1]) \in 0..(keyspace.cardinality - 1)

\* the commands that write a value
Writes == {"Set"}

\* C24: Config::new never builds a keyspace that has a write command and an
\* empty values list, so generate_value returns no empty value for it, and it
\* does not refuse a keyspace with an empty values list whose commands only
\* read.
C24_WritesRequireValues ==
  /\ keyspace.built = "yes" /\ keyspace.commands \cap Writes # {} =>
       /\ keyspace.values # <<>>
       /\ value # <<>> => value[1] # <<>>
  /\ keyspace.built = "panic" =>
       ~(keyspace_file.commands \cap Writes = {} /\ keyspace_file.values = <<>>)

\* C25: every rate limiter is a token bucket of capacity 1: whatever the
\* thread count, it never holds more than one token.
C25_CapacityOne ==
  \A d \in Domains :
    ratelimiters[d] # <<>> =>
      /\ ratelimiters[d][1].capacity = 1
      /\ ratelimiters[d][1].available <= 1

\* C28: Runtime::wait returns only after the admin thread and the worker
\* thread have both finished.
C28_WaitJoinsBoth ==
  main = "returned" => admin_thread = "finished" /\ worker_thread = "finished"

\* C26: with a connect rate limit configured, every connect attempt of a
\* driver is preceded by the acquisition of a token of the connect limiter:
\* the connect attempts never exceed the tokens that limiter has issued.
C26_ConnectAcquiresToken ==
  ratelimit["connect"] # None => metrics["CONNECT"] <= issued["connect"]

\* C27: the pool size is per endpoint: once the tasks are launched, every
\* configured target endpoint has exactly poolsize tasks, and no task
\* connects to anything but its own endpoint.
C27_PoolsizePerEndpoint ==
  tasks # NoTasks => tasks = [e \in endpoints |-> poolsize]

\* the exception counters of the commands of the Momento driver
ExceptionCounters == {"GET_EX", "SET_EX", "HASH_GET_EX", "HASH_SET_EX"}

\* the exception counter of a command ("none": the command has no counter)
ExceptionCounter(kind) ==
  CASE kind = "Get" -> "GET_EX"
    [] kind = "Set" -> "SET_EX"
    [] kind = "HashMultiGet" -> "HASH_GET_EX"
    [] kind = "HashSet" -> "HASH_SET_EX"
    [] OTHER -> "none"

\* C29: a request of the Momento driver that ends in a protocol exception
\* increments the exception counter of its own command and of no other
\* command: a failed HashSet increments HASH_SET_EX and leaves HASH_GET_EX
\* unchanged.
C29_OwnExceptionCounter ==
  [][protocol = "momento" /\ Classified("exception")
       => \A c \in ExceptionCounters :
            IF c = ExceptionCounter(work_item.kind) THEN Bumped(c) ELSE Same(c)]_vars

\* the counters of the arms of `match work_item` in the HTTP task
RequestArms == {"REQUEST_OK", "REQUEST_RECONNECT", "REQUEST_UNSUPPORTED"}

\* the HTTP task receives a work item
HttpPulled == protocol = "http" /\ pc = "recv" /\ work_item' # work_item

\* C30: in the HTTP driver every pulled work item is counted once in REQUEST
\* and in exactly one of REQUEST_OK, REQUEST_RECONNECT and
\* REQUEST_UNSUPPORTED, no other step changes these counters, and at the top
\* of the loop REQUEST = REQUEST_OK + REQUEST_RECONNECT + REQUEST_UNSUPPORTED.
C30_RequestAccounting ==
  /\ [][protocol = "http" =>
          IF HttpPulled
            THEN /\ Bumped("REQUEST")
                 /\ \E a \in RequestArms :
                      Bumped(a) /\ \A b \in RequestArms \ {a} : Same(b)
            ELSE Same("REQUEST") /\ \A a \in RequestArms : Same(a)]_vars
  /\ [](protocol = "http" /\ pc = "top" =>
          metrics["REQUEST"] = metrics["REQUEST_OK"] + metrics["REQUEST_RECONNECT"]
                                 + metrics["REQUEST_UNSUPPORTED"])

C30_Witness ==
  /\ protocol = "http" /\ pc = "top"
  /\ metrics["REQUEST"] = 2
  /\ metrics["REQUEST_OK"] = 1
  /\ metrics["REQUEST_UNSUPPORTED"] = 1

\* the sessions the HTTP task has closed, as the counters tell it
SessionsClosed ==
  metrics["SESSION_CLOSED_CLIENT"] + metrics["SESSION_CLOSED_SERVER"]

\* the transports the HTTP task holds: the one in `sender` or the one in `s`
SessionsHeld == IF sender # None \/ s # None THEN 1 ELSE 0

\* C31: in the HTTP driver a session is counted as closed at most once,
\* SESSION_CLOSED_CLIENT + SESSION_CLOSED_SERVER <= SESSION, and while the
\* task runs every transport it has dropped is counted in one of the two
\* closed counters.
C31_SessionsClosedOnce ==
  protocol = "http" =>
    /\ SessionsClosed <= metrics["SESSION"]
    /\ pc # "returned" => metrics["SESSION"] - SessionsHeld <= SessionsClosed

\* the counters a driver classifies a response with
ResponseClasses == {"RESPONSE_OK", "RESPONSE_EX", "RESPONSE_TIMEOUT"}

Responses ==
  metrics["RESPONSE_OK"] + metrics["RESPONSE_EX"] + metrics["RESPONSE_TIMEOUT"]

\* C32: in every driver each request that was sent ends in exactly one of
\* RESPONSE_OK, RESPONSE_EX and RESPONSE_TIMEOUT, and while no request is in
\* flight the number of sent requests is the sum of the three counters.
C32_ResponseAccounting ==
  /\ [][InFlight /\ ~InFlight'
          => \E a \in ResponseClasses :
               Bumped(a) /\ \A b \in ResponseClasses \ {a} : Same(b)]_vars
  /\ [](~InFlight => sent = Responses)

\* the ping task starts to read the response to the first request it sent on
\* the transport s
FirstReadOnTransport ==
  protocol = "ping" /\ pc = "writing" /\ pc' = "reading" /\ s # last_conn

\* C33: in the ping driver no byte read from one transport is parsed as part
\* of a response on a later transport: when the task starts to read the first
\* response on a newly opened connection, its read buffer is empty.
C33_NoBytesAcrossTransports ==
  [][FirstReadOnTransport => read_buffer' = <<>>]_vars

\* a read of the socket completes with n = 0: the peer has closed it
ReadsZeroBytes == PingRead(<<>>)

\* C34: in a ping run whose request.timeout is the 200 ms the driver uses,
\* the read loop ends with its classification no later than the timeout after
\* the request started, and a read of zero bytes (the peer closed the socket)
\* ends it at once with the classification exception, not timeout.
C34_ReadLoopEnds ==
  /\ [][protocol = "ping" /\ request_timeout = PingTimeoutTicks
          /\ InFlight /\ ~InFlight' =>
            /\ outcome' \in {"ok", "exception", "timeout"}
            /\ now - start <= request_timeout]_vars
  /\ [][ReadsZeroBytes => Classified("exception")]_vars

\* C35: get_requests ignores the result of send.  It returns only from the
\* head of its loop, having read RUNNING = false, so it has not returned
\* while RUNNING is set, whatever became of the queue; a send that fails
\* because no Receiver is left queues nothing, counts in the batch and is
\* followed by the next send or the head of the loop.
C35_SendResultIgnored ==
  /\ [][generator # "returned" /\ generator' = "returned" =>
          generator = "top" /\ ~RUNNING]_vars
  /\ [](generator = "returned" => ~RUNNING)
  /\ [][generator = "send" /\ ReceiversDropped /\ batch' # batch =>
          /\ batch' = batch + 1
          /\ generator' \in {"top", "send"}
          /\ queue' = queue /\ produced' = produced]_vars

\* the task has returned with RUNNING still set; the first send of a batch of
\* two has failed, and the generator is at the second send
C35_Witness ==
  /\ RUNNING
  /\ pc = "returned" /\ exit_cause = "connector"
  /\ rate # None /\ quanta = 2
  /\ generator = "send" /\ batch = 1 /\ produced = 0

\* C36: after RUNNING is cleared a driver task receives at most one further
\* work item before it returns, and once it has returned it receives and
\* sends nothing: the items then in the queue stay there.
C36_AtMostOneAfterShutdown ==
  /\ [](drained <= 1)
  /\ [][pc = "returned" =>
          /\ sent' = sent
          /\ work_item' = work_item
          /\ Len(queue') >= Len(queue)]_vars

\* RUNNING was cleared while the task waited in recv: it received one more
\* item, sent it, and returned with the next item left in the queue
C36_Witness ==
  /\ ~RUNNING
  /\ pc = "returned" /\ exit_cause = "running_cleared"
  /\ drained = 1
  /\ sent = 1
  /\ queue # <<>>

====
